---- MODULE Spec2Model ----
(***************************************************************************)
(* A model of MoDB (src/modb/modb.go): the crash-safe AddBlock pipeline,   *)
(* the background postAddBlock task, pruning, recovery on open and the     *)
(* read-locked queries.                                                    *)
(*                                                                         *)
(* Word sizes are scaled down so that the model checker's integers can     *)
(* hold every value: a height is an unsigned HeightBytes-byte word (4 in   *)
(* the source), id56 shifts the height by IdShift (1 << 24 in the source), *)
(* a short hash has HashSpace values (2^48 in the source) and the heap's   *)
(* wrap unit is Unit (32 << 40 in the source).  A byte keeps its 256       *)
(* values and payload framing keeps its 4-byte length and 32-byte          *)
(* alignment.                                                              *)
(***************************************************************************)
EXTENDS Integers, Sequences, FiniteSets, TLC

\* ---------------------------------------------------------------- bounds
MaxBlocks == 3      \* AddBlock calls with a non-nil block
MaxCrashes == 1     \* crashes of the process
MaxReaders == 1     \* concurrent query threads
Seed0 == 1          \* the seed given to CreateEmptyMoDB
MaxWrapSize == 2560 \* bytes of the heap file that grows beyond Unit

\* ------------------------------------------------------ program constants
ByteBase == 256     \* values of one byte
HeightBytes == 2    \* bytes of a height in a "B<height>" key (scaled)
IdShift == 256      \* GetId56 shifts the height by this factor (scaled)
HashSpace == 4      \* number of short hash values (scaled)
Align == 32         \* payload alignment in the heap file
LenBytes == 4       \* bytes of the length prefix of a payload
Unit == 1024        \* wrap unit of GetRealOffset (scaled)
ProbeOffset == 192  \* offset of the read after Flush in postAddBlock
SizeBytes == 3      \* bytes of the value under "HPF_SIZE" (scaled)

Nil == "nil"
\* What a query returns for a height or an id the indexer does not hold (nil
\* in the source), and what a failed read yields (a panic in the source):
\* byte sequences no payload equals.
Absent == <<-1>>
ReadError == <<-2>>

RECURSIVE Pow(_, _)
Pow(b, n) == IF n = 0 THEN 1 ELSE b * Pow(b, n - 1)

HeightSpace == Pow(ByteBase, HeightBytes)
MaxHeight == HeightSpace - 1

Max(a, b) == IF a >= b THEN a ELSE b

\* ------------------------------------------------------------- map helpers
EmptyMap == [x \in {} |-> 0]
MapPut(m, k, v) == [x \in (DOMAIN m) \cup {k} |-> IF x = k THEN v ELSE m[x]]
MapDel(m, k) == [x \in (DOMAIN m) \ {k} |-> m[x]]
MapGet(m, k, dflt) == IF k \in DOMAIN m THEN m[k] ELSE dflt

RECURSIVE RemoveFirst(_, _)
RemoveFirst(s, x) ==
    IF s = <<>> THEN <<>>
    ELSE IF Head(s) = x THEN Tail(s)
    ELSE <<Head(s)>> \o RemoveFirst(Tail(s), x)

Zeros(n) == [k \in 1..n |-> 0]

Range(s) == {s[k] : k \in DOMAIN s}

RECURSIVE Flatten(_)
Flatten(ss) == IF ss = <<>> THEN <<>> ELSE Head(ss) \o Flatten(Tail(ss))

\* The members of a set of integers in ascending order.
RECURSIVE Ascending(_)
Ascending(S) ==
    IF S = {} THEN <<>>
    ELSE LET m == CHOOSE x \in S : \A y \in S : x <= y
         IN <<m>> \o Ascending(S \ {m})

\* --------------------------------------------------------- little endian
\* binary.LittleEndian.PutUint32 / PutUint64: the n bytes of v, lowest first.
LE(v, n) == [k \in 1..n |-> (v \div Pow(ByteBase, k - 1)) % ByteBase]

\* binary.LittleEndian.Uint32: the value of a little-endian byte sequence.
RECURSIVE UnLE(_)
UnLE(bz) == IF bz = <<>> THEN 0 ELSE Head(bz) + ByteBase * UnLE(Tail(bz))

\* uint32(x) of the source, at the scaled width.
U32(x) == x % HeightSpace

\* The bytes after 'B' of the key "B<height>".
BKey(height) == LE(height, HeightBytes)

\* bytes.Compare(a, b) < 0 on keys of equal length: the order of the store.
RECURSIVE LexLess(_, _)
LexLess(a, b) ==
    IF a = <<>> \/ b = <<>> THEN a = <<>> /\ b # <<>>
    ELSE IF Head(a) # Head(b) THEN Head(a) < Head(b)
    ELSE LexLess(Tail(a), Tail(b))

\* The keys of S in ascending lexicographic order.
RECURSIVE SortKeys(_)
SortKeys(S) ==
    IF S = {} THEN <<>>
    ELSE LET m == CHOOSE k \in S : \A o \in S \ {k} : LexLess(k, o)
         IN <<m>> \o SortKeys(S \ {m})

\* metadb.Iterator(start, end): the keys in [start, end), ascending.
IterKeys(B, start, end) ==
    SortKeys({k \in DOMAIN B : ~LexLess(k, start) /\ LexLess(k, end)})

\* ------------------------------------------------------------ pure helpers
\* The short hash: a function of seed and key with HashSpace values, so that
\* different keys may collide (xxhash's digest, cut to 48 bits, in the source).
Sum48(seed, key) == (seed + key) % HashSpace

Padding32(length) ==
    LET mod == length % Align
    IN IF mod # 0 THEN Align - mod ELSE 0

GetRealOffsetWith(unit, offset, size) ==
    LET n0 == size \div unit
        n == IF size % unit = 0 THEN n0 - 1 ELSE n0
        off == offset + n * unit
    IN IF off > size THEN off - unit ELSE off

GetRealOffset(offset, size) == GetRealOffsetWith(Unit, offset, size)

GetId56(height, i) == height * IdShift + i

\* The value QueryLogs passes for "no address": above every short hash
\* (1 << 63 in the source, short hashes being below 1 << 48).
InvalidAddrHash == HashSpace * 32768

\* A nil addr argument of QueryLogs.
NilAddr == -1

\* ------------------------------------------------------------------ blocks
Log(addr, topics) == [Address |-> addr, Topics |-> topics]
Tx(hashId, content, logs) ==
    [HashId |-> hashId, Content |-> content, LogList |-> logs]
Block(h, hash, info, txs) ==
    [Height |-> h, BlockHash |-> hash, BlockInfo |-> info, TxList |-> txs]

\* The heights a caller adds: below and above one byte, and the largest.
Heights == {1, 2, ByteBase, ByteBase + 1, MaxHeight}

\* The block a caller adds at height h (one block per height).  The hashes
\* of the blocks at 1, ByteBase and MaxHeight have one short hash.
Blk(h) ==
    CASE h = 1 ->
           Block(h, 11, <<101>>,
                 << Tx(21, <<201>>, << Log(1, <<1, 2>>) >>),
                    Tx(22, <<202, 203>>, << Log(2, <<1>>) >>) >>)
      [] h = 2 -> Block(h, 12, <<102>>, <<>>)
      [] h = ByteBase ->
           Block(h, 19, <<103>>, << Tx(23, <<204>>, << Log(1, <<>>) >>) >>)
      [] h = ByteBase + 1 ->
           Block(h, 14, <<104>>, << Tx(24, <<>>, <<>>) >>)
      [] OTHER ->
           Block(h, 15, <<105>>, << Tx(25, <<205>>, << Log(2, <<3>>) >>) >>)

\* The pruneTillHeight arguments a caller passes.
PruneArgs == {-1, 2, ByteBase + 1}

\* ---------------------------------------------------------------- HPFile
\* The heap file is a byte sequence `data`, of which the bytes below `head`
\* have been pruned and the bytes below `flushed` have reached the disk.

\* HPFile.ReadAt(buf, off, false) with len(buf) = n.
ReadAt(data, head, off, n) ==
    IF off < head \/ off < 0 \/ off + n > Len(data) THEN ReadError
    ELSE SubSeq(data, off + 1, off + n)

\* HPFile.Truncate(size): cuts the file, or extends it with zero bytes.
Truncate(data, size) ==
    IF size <= Len(data) THEN SubSeq(data, 1, size)
    ELSE data \o Zeros(size - Len(data))

\* HPFile.PruneHead(off).
PruneHead(head, off) == Max(head, off)

\* A frame without its padding.
FrameNoPad(data) == LE(Len(data), LenBytes) \o data

\* The bytes appendToFile hands to HPFile.Append.
Frame(data) ==
    LE(Len(data), LenBytes) \o data \o Zeros(Padding32(LenBytes + Len(data)))

\* The value appendToFile returns when the file holds `data`.
AppendOffset40(data) == Len(data) \div Align

readInFile(data, head, offset40) ==
    LET offset == GetRealOffset(offset40 * Align, Len(data))
        buf == ReadAt(data, head, offset, LenBytes)
    IN IF buf = ReadError THEN ReadError
       ELSE LET size == UnLE(buf)
                bz == ReadAt(data, head, offset, size + LenBytes)
            IN IF bz = ReadError THEN ReadError
               ELSE SubSeq(bz, LenBytes + 1, Len(bz))

\* --------------------------------------------------------------- indexer
NewIndexer ==
    [blkHeight |-> EmptyMap, blkHash |-> EmptyMap,
     txId |-> EmptyMap, txHash |-> EmptyMap,
     addr2Log |-> EmptyMap, topic2Log |-> EmptyMap]

ListAdd(m, k, v) == MapPut(m, k, Append(MapGet(m, k, <<>>), v))

ListErase(m, k, v) ==
    IF k \notin DOMAIN m THEN m
    ELSE LET l == RemoveFirst(m[k], v)
         IN IF l = <<>> THEN MapDel(m, k) ELSE MapPut(m, k, l)

IdxAddBlock(ix, height, hash48, offset40) ==
    [ix EXCEPT !.blkHeight = MapPut(@, height, offset40),
               !.blkHash = ListAdd(@, hash48, offset40)]

IdxAddTx(ix, id56, hash48, offset40) ==
    [ix EXCEPT !.txId = MapPut(@, id56, offset40),
               !.txHash = ListAdd(@, hash48, offset40)]

LogAdd(m, hash48, height, posList) ==
    LET old == MapGet(m, hash48, EmptyMap)
    IN MapPut(m, hash48,
              MapPut(old, height, MapGet(old, height, <<>>) \o posList))

LogErase(m, hash48, height) ==
    IF hash48 \notin DOMAIN m THEN m
    ELSE LET rest == MapDel(m[hash48], height)
         IN IF DOMAIN rest = {} THEN MapDel(m, hash48)
            ELSE MapPut(m, hash48, rest)

IdxAddAddr2Log(ix, hash48, height, posList) ==
    [ix EXCEPT !.addr2Log = LogAdd(@, hash48, height, posList)]

IdxAddTopic2Log(ix, hash48, height, posList) ==
    [ix EXCEPT !.topic2Log = LogAdd(@, hash48, height, posList)]

IdxEraseBlock(ix, height, hash48) ==
    IF height \notin DOMAIN ix.blkHeight THEN ix
    ELSE [ix EXCEPT !.blkHeight = MapDel(@, height),
                    !.blkHash = ListErase(@, hash48, ix.blkHeight[height])]

IdxEraseTx(ix, id56, hash48, offset40) ==
    [ix EXCEPT !.txId = MapDel(@, id56),
               !.txHash = ListErase(@, hash48, offset40)]

IdxEraseAddr2Log(ix, hash48, height) ==
    [ix EXCEPT !.addr2Log = LogErase(@, hash48, height)]

IdxEraseTopic2Log(ix, hash48, height) ==
    [ix EXCEPT !.topic2Log = LogErase(@, hash48, height)]

GetOffsetByBlockHeight(ix, height) == MapGet(ix.blkHeight, height, -1)
GetOffsetByTxID(ix, id56) == MapGet(ix.txId, id56, -1)
GetOffsetsByBlockHash(ix, hash48) == MapGet(ix.blkHash, hash48, <<>>)
GetOffsetsByTxHash(ix, hash48) == MapGet(ix.txHash, hash48, <<>>)

\* The heights at which the map m of log entries holds a list.
LogHeights(m) == UNION {DOMAIN m[k] : k \in DOMAIN m}

\* The list of transaction indices m holds for hash48 at height, empty when
\* it holds none.
PosListAt(m, hash48, height) ==
    MapGet(MapGet(m, hash48, EmptyMap), height, <<>>)

\* What one height contributes to QueryTxOffsets: the indices of the first
\* list that every other list holds, each turned into its offset.
OffsetsAtHeight(ix, addrHash48, topicHash48List, height) ==
    LET addrLists == IF addrHash48 = InvalidAddrHash THEN <<>>
                     ELSE <<PosListAt(ix.addr2Log, addrHash48, height)>>
        lists == addrLists \o
                 [t \in 1..Len(topicHash48List) |->
                    PosListAt(ix.topic2Log, topicHash48List[t], height)]
        InAll(i) == \A k \in 2..Len(lists) : i \in Range(lists[k])
    IN IF lists = <<>> \/ \E k \in 1..Len(lists) : lists[k] = <<>> THEN <<>>
       ELSE LET surviving == SelectSeq(lists[1], InAll)
            IN [k \in 1..Len(surviving) |->
                  GetOffsetByTxID(ix, GetId56(height, surviving[k]))]

QueryTxOffsets(ix, addrHash48, topicHash48List, startHeight, endHeight) ==
    LET hs == Ascending({h \in LogHeights(ix.addr2Log)
                                \cup LogHeights(ix.topic2Log) :
                           startHeight <= h /\ h <= endHeight})
    IN Flatten([k \in 1..Len(hs) |->
                  OffsetsAtHeight(ix, addrHash48, topicHash48List, hs[k])])

\* All the AddAddr2Log calls of one block: posLists maps each hash to its list.
RECURSIVE AddAllLogs(_, _, _, _)
AddAllLogs(m, posLists, height, todo) ==
    IF todo = {} THEN m
    ELSE LET k == CHOOSE x \in todo : TRUE
         IN AddAllLogs(LogAdd(m, k, height, posLists[k]), posLists, height,
                       todo \ {k})

RECURSIVE EraseAllLogs(_, _, _)
EraseAllLogs(m, height, todo) ==
    IF todo = {} THEN m
    ELSE LET k == CHOOSE x \in todo : TRUE
         IN EraseAllLogs(LogErase(m, k, height), height, todo \ {k})

\* ----------------------------------------------------------- fillLogIndex
AppendAtKey(m, key, value) == MapPut(m, key, Append(MapGet(m, key, <<>>), value))

RECURSIVE FoldAppend(_, _)
FoldAppend(m, evs) ==
    IF evs = <<>> THEN m
    ELSE FoldAppend(AppendAtKey(m, Head(evs)[1], Head(evs)[2]), Tail(evs))

\* The (hash, tx index) pairs fillLogIndex appends to topicIndex, in order.
TopicEvents(seed, blk) ==
    Flatten([i \in 1..Len(blk.TxList) |->
      Flatten([l \in 1..Len(blk.TxList[i].LogList) |->
        [t \in 1..Len(blk.TxList[i].LogList[l].Topics) |->
           <<Sum48(seed, blk.TxList[i].LogList[l].Topics[t]), i - 1>>]])])

\* The (hash, tx index) pairs fillLogIndex appends to addrIndex, in order.
AddrEvents(seed, blk) ==
    Flatten([i \in 1..Len(blk.TxList) |->
      [l \in 1..Len(blk.TxList[i].LogList) |->
         <<Sum48(seed, blk.TxList[i].LogList[l].Address), i - 1>>]])

\* The BlockIndex postAddBlock creates and fillLogIndex fills.  The two
\* parallel slices of the source (AddrHashes, AddrPosLists) are one map from
\* hash to list here: the source fills them in the order of a Go map, and
\* uses them only key by key.
fillLogIndex(seed, blk) ==
    [Height |-> U32(blk.Height),
     BlockHash48 |-> 0,
     BeginOffset |-> 0,
     TxHash48List |-> Zeros(Len(blk.TxList)),
     TxPosList |-> Zeros(Len(blk.TxList)),
     AddrPosLists |-> FoldAppend(EmptyMap, AddrEvents(seed, blk)),
     TopicPosLists |-> FoldAppend(EmptyMap, TopicEvents(seed, blk))]

\* ---------------------------------------------------------------- state
VARIABLES
    metadb,     \* MetaStore: NEW (a sequence: empty when the key is absent),
                \* HPF_SIZE, SEED and the "B<height>" entries
    hpData,     \* heap file: its bytes
    hpHead,     \* heap file: the pruned prefix
    hpFlushed,  \* heap file: the bytes that have reached the disk
    indexer,    \* db.indexer
    seed,       \* db.seed
    wg,         \* db.wg: the wait group's counter
    wlocked,    \* db.mtx is held for writing
    rcount,     \* db.mtx: the queries holding it for reading
    tasks,      \* the running postAddBlock goroutines
    callerpc,   \* where the thread that opens, adds and closes is
    callerArg,  \* the block and pruneTillHeight the caller is about to hand,
                \* or has handed (NewMoDB), to postAddBlock: a sequence,
                \* empty when there is none
    submitted,  \* history: the heights passed to AddBlock
    accepted,   \* history: the heights whose AddBlock has returned
    maxPrune,   \* history: the largest pruneTillHeight passed to AddBlock
    prunedHs,   \* history: the heights pruneBlock has erased
    crashes,    \* history: the crashes so far
    committed   \* history: the heights of the batches of postAddBlock

vars == <<metadb, hpData, hpHead, hpFlushed, indexer, seed, wg, wlocked,
          rcount, tasks, callerpc, callerArg, submitted, accepted, maxPrune,
          prunedHs, crashes, committed>>

hpVars == <<hpData, hpHead, hpFlushed>>
histVars == <<submitted, accepted, maxPrune, prunedHs, crashes, committed>>

\* CreateEmptyMoDB(path, Seed0).
Init ==
    /\ metadb = [NEW |-> <<>>, HPF_SIZE |-> LE(0, SizeBytes), SEED |-> Seed0,
                 B |-> EmptyMap]
    /\ hpData = <<>>
    /\ hpHead = 0
    /\ hpFlushed = 0
    /\ indexer = NewIndexer
    /\ seed = Seed0
    /\ wg = 0
    /\ wlocked = FALSE
    /\ rcount = 0
    /\ tasks = <<>>
    /\ callerpc = "ready"
    /\ callerArg = <<>>
    /\ submitted = {}
    /\ accepted = {}
    /\ maxPrune = -1
    /\ prunedHs = {}
    /\ crashes = 0
    /\ committed = <<>>

\* --------------------------------------------------- index of one block
\* The AddTx calls of reloadBlockToIndexer, from transaction i on.
RECURSIVE ReloadTxs(_, _, _)
ReloadTxs(ix, bi, i) ==
    IF i > Len(bi.TxHash48List) THEN ix
    ELSE ReloadTxs(IdxAddTx(ix, GetId56(bi.Height, i - 1), bi.TxHash48List[i],
                            bi.TxPosList[i]), bi, i + 1)

reloadBlockToIndexer(ix, bi) ==
    LET a == IdxAddBlock(ix, bi.Height, bi.BlockHash48, bi.BeginOffset)
        b == ReloadTxs(a, bi, 1)
    IN [b EXCEPT
          !.addr2Log = AddAllLogs(@, bi.AddrPosLists, bi.Height,
                                  DOMAIN bi.AddrPosLists),
          !.topic2Log = AddAllLogs(@, bi.TopicPosLists, bi.Height,
                                   DOMAIN bi.TopicPosLists)]

\* The end key of reloadToIndexer's iterator: 'B' followed by 255s.
ReloadEnd == [k \in 1..HeightBytes |-> ByteBase - 1]

RECURSIVE ReloadKeys(_, _, _)
ReloadKeys(ix, B, keys) ==
    IF keys = <<>> THEN ix
    ELSE ReloadKeys(reloadBlockToIndexer(ix, B[Head(keys)]), B, Tail(keys))

reloadToIndexer(ix, B) == ReloadKeys(ix, B, IterKeys(B, BKey(0), ReloadEnd))

\* The EraseTx calls of pruneBlock, from transaction i on.
RECURSIVE EraseTxs(_, _, _)
EraseTxs(ix, bi, i) ==
    IF i > Len(bi.TxHash48List) THEN ix
    ELSE EraseTxs(IdxEraseTx(ix, GetId56(bi.Height, i - 1),
                             bi.TxHash48List[i], bi.TxPosList[i]), bi, i + 1)

\* What pruneBlock does to the indexer.
pruneBlockIndexer(ix, bi) ==
    LET a == IdxEraseBlock(ix, bi.Height, bi.BlockHash48)
        b == EraseTxs(a, bi, 1)
    IN [b EXCEPT
          !.addr2Log = EraseAllLogs(@, bi.Height, DOMAIN bi.AddrPosLists),
          !.topic2Log = EraseAllLogs(@, bi.Height, DOMAIN bi.TopicPosLists)]

\* What pruneBlock hands to HPFile.PruneHead.
PruneOffset(bi) == bi.BeginOffset

\* The keys pruneTillBlock iterates over.
PruneKeys(B, pruneTillHeight) ==
    IterKeys(B, BKey(0), BKey(U32(pruneTillHeight)))

\* A batch that leaves NEW in the store.
CommitBatchKeepsNew(md, blkIdx, size) ==
    [md EXCEPT !.B = MapPut(@, BKey(blkIdx.Height), blkIdx),
               !.HPF_SIZE = LE(size, SizeBytes)]

\* The batch of postAddBlock: the block's index, the heap's size, NEW deleted.
CommitBatch(md, blkIdx, size) ==
    [md EXCEPT !.B = MapPut(@, BKey(blkIdx.Height), blkIdx),
               !.HPF_SIZE = LE(size, SizeBytes),
               !.NEW = <<>>]

\* The batch of pruneTillBlock: the keys it went over, deleted.
RECURSIVE DeleteKeys(_, _)
DeleteKeys(B, keys) ==
    IF keys = <<>> THEN B ELSE DeleteKeys(MapDel(B, Head(keys)), Tail(keys))

\* A wait that returns at once.
WgNoWait == TRUE

\* db.wg.Wait() returns.
WgWait == wg = 0

\* db.mtx.Lock() returns.
MtxLock == ~wlocked /\ rcount = 0

\* A read lock that a writer does not hold off.
MtxRLockNoWait == TRUE

\* db.mtx.RLock() returns: no writer holds db.mtx and none waits for it (a
\* sync.RWMutex holds new readers off while a call of Lock is blocked).
MtxRLock ==
    /\ ~wlocked
    /\ \A ti \in 1..Len(tasks) : tasks[ti].pc # "lockwait"

\* The pruneTillHeight NewMoDB passes to postAddBlock.
ReplayPrune == -1

\* A BlockIndex with nothing filled in.
ZeroBlockIndex ==
    [Height |-> 0, BlockHash48 |-> 0, BeginOffset |-> 0,
     TxHash48List |-> <<>>, TxPosList |-> <<>>,
     AddrPosLists |-> EmptyMap, TopicPosLists |-> EmptyMap]

NewTask(blk, pruneTillHeight) ==
    [blk |-> blk, pruneTillHeight |-> pruneTillHeight, pc |-> "start",
     blkIdx |-> ZeroBlockIndex, i |-> 0, keys |-> <<>>]

RemoveAt(s, n) == SubSeq(s, 1, n - 1) \o SubSeq(s, n + 1, Len(s))

\* ------------------------------------------------------------- AddBlock
\* AddBlock up to SetSync: wait for the previous task, write NEW.  The
\* caller adds blocks in ascending order of height, each height once.
AddBlockSetSync(h, p) ==
    /\ callerpc = "ready"
    /\ WgWait
    /\ Cardinality(submitted) < MaxBlocks
    /\ \A o \in submitted : o < h
    /\ metadb' = [metadb EXCEPT !.NEW = <<Blk(h)>>]
    /\ callerpc' = "spawn"
    /\ callerArg' = <<[blk |-> Blk(h), pruneTillHeight |-> p]>>
    /\ submitted' = submitted \cup {h}
    /\ maxPrune' = Max(maxPrune, p)
    /\ UNCHANGED <<hpVars, indexer, seed, wg, wlocked, rcount, tasks,
                   accepted, prunedHs, crashes, committed>>

\* AddBlock from wg.Add(1) on: start the task and return.
AddBlockSpawn ==
    /\ callerpc = "spawn"
    /\ wg' = wg + 1
    /\ tasks' = Append(tasks, NewTask(callerArg[1].blk,
                                    callerArg[1].pruneTillHeight))
    /\ callerpc' = "ready"
    /\ callerArg' = <<>>
    /\ accepted' = accepted \cup {callerArg[1].blk.Height}
    /\ UNCHANGED <<metadb, hpVars, indexer, seed, wlocked, rcount, submitted,
                   maxPrune, prunedHs, crashes, committed>>

\* AddBlock(nil, p) is called: it is at its db.wg.Wait().
AddBlockNilCall(p) ==
    /\ callerpc = "ready"
    /\ callerpc' = "nilwait"
    /\ UNCHANGED <<metadb, hpVars, indexer, seed, wg, wlocked, rcount, tasks,
                   callerArg, histVars>>

\* A return that prunes as if the block were not nil.
AddBlockNilPrunes(p) ==
    /\ callerpc = "nilwait"
    /\ WgWait
    /\ metadb' = IF p < 0 THEN metadb
                 ELSE [metadb EXCEPT !.B = DeleteKeys(@, PruneKeys(@, p))]
    /\ callerpc' = "ready"
    /\ UNCHANGED <<hpVars, indexer, seed, wg, wlocked, rcount, tasks,
                   callerArg, histVars>>

\* AddBlock(nil, p): the wait is over, blk is nil, AddBlock returns.
AddBlockNilReturn(p) ==
    /\ callerpc = "nilwait"
    /\ WgWait
    /\ callerpc' = "ready"
    /\ UNCHANGED <<metadb, hpVars, indexer, seed, wg, wlocked, rcount, tasks,
                   callerArg, histVars>>

\* ---------------------------------------------------------- postAddBlock
\* The new BlockIndex and fillLogIndex; the task calls db.mtx.Lock().
PostFillAt(ti) ==
    /\ tasks[ti].pc = "start"
    /\ tasks' = [tasks EXCEPT ![ti].blkIdx = fillLogIndex(seed, tasks[ti].blk),
                              ![ti].pc = "lockwait"]
    /\ UNCHANGED <<metadb, hpVars, indexer, seed, wg, wlocked, rcount,
                   callerpc, callerArg, histVars>>

\* db.mtx.Lock() returns.
PostLockAt(ti) ==
    /\ tasks[ti].pc = "lockwait"
    /\ MtxLock
    /\ wlocked' = TRUE
    /\ tasks' = [tasks EXCEPT ![ti].pc = "appendBlk"]
    /\ UNCHANGED <<metadb, hpVars, indexer, seed, wg, rcount, callerpc,
                   callerArg, histVars>>

\* Append the block's information and add the block to the indexer.
PostAppendBlockAt(ti) ==
    LET t == tasks[ti]
        offset40 == AppendOffset40(hpData)
        hash48 == Sum48(seed, t.blk.BlockHash)
    IN /\ t.pc = "appendBlk"
       /\ hpData' = hpData \o Frame(t.blk.BlockInfo)
       /\ indexer' = IdxAddBlock(indexer, t.blkIdx.Height, hash48, offset40)
       /\ tasks' = [tasks EXCEPT
                      ![ti].blkIdx.BeginOffset = offset40,
                      ![ti].blkIdx.BlockHash48 = hash48,
                      ![ti].i = 1,
                      ![ti].pc = IF t.blk.TxList = <<>> THEN "logs"
                                 ELSE "appendTx"]
       /\ UNCHANGED <<metadb, hpHead, hpFlushed, seed, wg, wlocked, rcount,
                      callerpc, callerArg, histVars>>

\* One round of the loop over blk.TxList.
PostAppendTxAt(ti) ==
    LET t == tasks[ti]
        tx == t.blk.TxList[t.i]
        offset40 == AppendOffset40(hpData)
        hash48 == Sum48(seed, tx.HashId)
    IN /\ t.pc = "appendTx"
       /\ hpData' = hpData \o Frame(tx.Content)
       /\ indexer' = IdxAddTx(indexer, GetId56(t.blkIdx.Height, t.i - 1),
                              hash48, offset40)
       /\ tasks' = [tasks EXCEPT
                      ![ti].blkIdx.TxPosList[t.i] = offset40,
                      ![ti].blkIdx.TxHash48List[t.i] = hash48,
                      ![ti].i = t.i + 1,
                      ![ti].pc = IF t.i = Len(t.blk.TxList) THEN "logs"
                                 ELSE "appendTx"]
       /\ UNCHANGED <<metadb, hpHead, hpFlushed, seed, wg, wlocked, rcount,
                      callerpc, callerArg, histVars>>

\* The loops over blkIdx.AddrHashes and blkIdx.TopicHashes.
PostLogsAt(ti) ==
    LET t == tasks[ti]
    IN /\ t.pc = "logs"
       /\ indexer' = [indexer EXCEPT
             !.addr2Log = AddAllLogs(@, t.blkIdx.AddrPosLists, t.blkIdx.Height,
                                     DOMAIN t.blkIdx.AddrPosLists),
             !.topic2Log = AddAllLogs(@, t.blkIdx.TopicPosLists,
                                      t.blkIdx.Height,
                                      DOMAIN t.blkIdx.TopicPosLists)]
       /\ tasks' = [tasks EXCEPT ![ti].pc = "commit"]
       /\ UNCHANGED <<metadb, hpVars, seed, wg, wlocked, rcount, callerpc,
                      callerArg, histVars>>

\* OpenNewBatch ... CloseOldBatch.
PostCommitAt(ti) ==
    LET t == tasks[ti]
    IN /\ t.pc = "commit"
       /\ metadb' = CommitBatch(metadb, t.blkIdx, Len(hpData))
       /\ tasks' = [tasks EXCEPT ![ti].pc = "flush"]
       /\ committed' = Append(committed, t.blkIdx.Height)
       /\ UNCHANGED <<hpVars, indexer, seed, wg, wlocked, rcount, callerpc,
                      callerArg, submitted, accepted, maxPrune, prunedHs,
                      crashes>>

\* What a crash of the process leaves of the state in memory.
ProcessDown ==
    /\ indexer' = NewIndexer
    /\ seed' = 0
    /\ wg' = 0
    /\ wlocked' = FALSE
    /\ rcount' = 0
    /\ tasks' = <<>>
    /\ callerpc' = "crashed"
    /\ callerArg' = <<>>

\* db.hpfile.Flush() and the read at offset 192, which panics on an error.
PostFlushAt(ti) ==
    LET t == tasks[ti]
        probeFails == /\ Len(hpData) > ProbeOffset
                      /\ ReadAt(hpData, hpHead, ProbeOffset, 8) = ReadError
    IN /\ t.pc = "flush"
       /\ hpFlushed' = Len(hpData)
       /\ IF probeFails
          THEN ProcessDown
          ELSE /\ tasks' = [tasks EXCEPT ![ti].pc = "prune"]
               /\ UNCHANGED <<indexer, seed, wg, wlocked, rcount, callerpc,
                              callerArg>>
       /\ UNCHANGED <<metadb, hpData, hpHead, histVars>>

\* pruneTillBlock up to the creation of the iterator.
PostPruneStartAt(ti) ==
    LET t == tasks[ti]
    IN /\ t.pc = "prune"
       /\ tasks' = IF t.pruneTillHeight < 0
                   THEN [tasks EXCEPT ![ti].pc = "unlock"]
                   ELSE [tasks EXCEPT
                           ![ti].keys = PruneKeys(metadb.B, t.pruneTillHeight),
                           ![ti].i = 1,
                           ![ti].pc = "pruneLoop"]
       /\ UNCHANGED <<metadb, hpVars, indexer, seed, wg, wlocked, rcount,
                      callerpc, callerArg, histVars>>

\* One round of pruneTillBlock's loop: pruneBlock.
PostPruneBlockAt(ti) ==
    LET t == tasks[ti]
    IN /\ t.pc = "pruneLoop"
       /\ t.i <= Len(t.keys)
       /\ LET bi == metadb.B[t.keys[t.i]]
          IN /\ hpHead' = PruneHead(hpHead, PruneOffset(bi))
             /\ indexer' = pruneBlockIndexer(indexer, bi)
             /\ prunedHs' = prunedHs \cup {bi.Height}
       /\ tasks' = [tasks EXCEPT ![ti].i = t.i + 1]
       /\ UNCHANGED <<metadb, hpData, hpFlushed, seed, wg, wlocked, rcount,
                      callerpc, callerArg, submitted, accepted, maxPrune,
                      crashes, committed>>

\* The batch of pruneTillBlock.
PostPruneCommitAt(ti) ==
    LET t == tasks[ti]
    IN /\ t.pc = "pruneLoop"
       /\ t.i > Len(t.keys)
       /\ metadb' = [metadb EXCEPT !.B = DeleteKeys(@, t.keys)]
       /\ tasks' = [tasks EXCEPT ![ti].pc = "unlock"]
       /\ UNCHANGED <<hpVars, indexer, seed, wg, wlocked, rcount, callerpc,
                      callerArg, histVars>>

\* A return of postAddBlock that leaves db.mtx locked.
PostUnlockKeepsLockAt(ti) ==
    /\ tasks[ti].pc = "unlock"
    /\ tasks' = [tasks EXCEPT ![ti].pc = "done"]
    /\ UNCHANGED <<metadb, hpVars, indexer, seed, wg, wlocked, rcount,
                   callerpc, callerArg, histVars>>

\* The deferred db.mtx.Unlock().
PostUnlockAt(ti) ==
    /\ tasks[ti].pc = "unlock"
    /\ wlocked' = FALSE
    /\ tasks' = [tasks EXCEPT ![ti].pc = "done"]
    /\ UNCHANGED <<metadb, hpVars, indexer, seed, wg, rcount, callerpc,
                   callerArg, histVars>>

\* The deferred db.wg.Done(); the goroutine ends.
PostDoneAt(ti) ==
    /\ tasks[ti].pc = "done"
    /\ wg' = wg - 1
    /\ tasks' = RemoveAt(tasks, ti)
    /\ UNCHANGED <<metadb, hpVars, indexer, seed, wlocked, rcount, callerpc,
                   callerArg, histVars>>

\* ------------------------------------------------------ crash and restart
\* The sizes the heap file may have after a crash: what was flushed, and
\* any number of the 32-byte units written since.
Survivors == {s \in hpFlushed..Len(hpData) : s % Align = 0}

\* The process dies: memory is lost, the unflushed tail of the heap file
\* survives down to any length.
Crash ==
    /\ callerpc \in {"ready", "spawn", "nilwait", "opening"}
    /\ crashes < MaxCrashes
    /\ crashes' = crashes + 1
    /\ \E s \in Survivors :
         /\ hpData' = SubSeq(hpData, 1, s)
         /\ hpFlushed' = s
    /\ ProcessDown
    /\ UNCHANGED <<metadb, hpHead, submitted, accepted, maxPrune, prunedHs,
                   committed>>

\* NewMoDB up to its return (no NEW) or up to its db.wg.Wait().
NewMoDB ==
    LET size == UnLE(metadb.HPF_SIZE)
        blkBz == metadb.NEW
    IN /\ callerpc \in {"closed", "crashed"}
       /\ hpData' = Truncate(hpData, size)
       /\ hpFlushed' = size
       /\ indexer' = reloadToIndexer(NewIndexer, metadb.B)
       /\ seed' = metadb.SEED
       /\ IF blkBz = <<>>
          THEN /\ callerpc' = "ready"
               /\ UNCHANGED <<wg, tasks, callerArg>>
          ELSE /\ wg' = wg + 1
               /\ tasks' = Append(tasks, NewTask(blkBz[1], ReplayPrune))
               /\ callerArg' = <<[blk |-> blkBz[1],
                                  pruneTillHeight |-> ReplayPrune]>>
               /\ callerpc' = "opening"
       /\ UNCHANGED <<metadb, hpHead, wlocked, rcount, histVars>>

\* NewMoDB's db.wg.Wait() returns, and NewMoDB with it.
NewMoDBReturn ==
    /\ callerpc = "opening"
    /\ WgWait
    /\ callerpc' = "ready"
    /\ callerArg' = <<>>
    /\ UNCHANGED <<metadb, hpVars, indexer, seed, wg, wlocked, rcount, tasks,
                   histVars>>

\* Close: wait for the task, close the heap file, the store and the indexer.
\* The caller lets no query run into Close.
Close ==
    /\ callerpc = "ready"
    /\ WgWait
    /\ rcount = 0
    /\ hpFlushed' = Len(hpData)
    /\ indexer' = NewIndexer
    /\ seed' = 0
    /\ callerpc' = "closed"
    /\ UNCHANGED <<metadb, hpData, hpHead, wg, wlocked, rcount, tasks,
                   callerArg, histVars>>

\* ---------------------------------------------------------------- queries
\* A query takes db.mtx for reading.
QueryBegin ==
    /\ callerpc \in {"ready", "spawn", "nilwait"}
    /\ rcount < MaxReaders
    /\ MtxRLock
    /\ rcount' = rcount + 1
    /\ UNCHANGED <<metadb, hpVars, indexer, seed, wg, wlocked, tasks,
                   callerpc, callerArg, histVars>>

\* The query's deferred db.mtx.RUnlock().
QueryEnd ==
    /\ rcount > 0
    /\ rcount' = rcount - 1
    /\ UNCHANGED <<metadb, hpVars, indexer, seed, wg, wlocked, tasks,
                   callerpc, callerArg, histVars>>

GetBlockByHeight(height) ==
    LET offset40 == GetOffsetByBlockHeight(indexer, U32(height))
    IN IF offset40 < 0 THEN Absent ELSE readInFile(hpData, hpHead, offset40)

GetTxByHeightAndIndex(height, index) ==
    LET offset40 == GetOffsetByTxID(indexer, GetId56(U32(height), index))
    IN IF offset40 < 0 THEN Absent ELSE readInFile(hpData, hpHead, offset40)

\* The payloads GetTxByHash feeds to collectResult, should it never accept.
TxByHashCandidates(hash) ==
    LET offs == GetOffsetsByTxHash(indexer, Sum48(seed, hash))
    IN [k \in 1..Len(offs) |-> readInFile(hpData, hpHead, offs[k])]

\* The payloads GetBlockByHash feeds to collectResult, should it never accept.
BlockByHashCandidates(hash) ==
    LET offs == GetOffsetsByBlockHash(indexer, Sum48(seed, hash))
    IN [k \in 1..Len(offs) |-> readInFile(hpData, hpHead, offs[k])]

\* The loop of GetBlockByHash and GetTxByHash over the candidate offsets:
\* the payloads it feeds to collectResult, a function that returns true on
\* the payloads in `accepts`.
RECURSIVE CollectLoop(_, _)
CollectLoop(offs, accepts) ==
    IF offs = <<>> THEN <<>>
    ELSE LET bz == readInFile(hpData, hpHead, Head(offs))
         IN IF bz \in accepts THEN <<bz>>
            ELSE <<bz>> \o CollectLoop(Tail(offs), accepts)

GetBlockByHash(hash, accepts) ==
    CollectLoop(GetOffsetsByBlockHash(indexer, Sum48(seed, hash)), accepts)

GetTxByHash(hash, accepts) ==
    CollectLoop(GetOffsetsByTxHash(indexer, Sum48(seed, hash)), accepts)

\* A loop over offList that goes on when fn has returned false.
RECURSIVE QueryLoopNoBreak(_, _, _)
QueryLoopNoBreak(offList, n, stopAt) ==
    IF offList = <<>> THEN <<>>
    ELSE <<readInFile(hpData, hpHead, Head(offList))>>
         \o QueryLoopNoBreak(Tail(offList), n + 1, stopAt)

\* The loop of QueryLogs over offList: the payloads it feeds to fn, a
\* function that returns false at its call number stopAt (never, if 0); n is
\* the number of the next call.
RECURSIVE QueryLoop(_, _, _)
QueryLoop(offList, n, stopAt) ==
    IF offList = <<>> THEN <<>>
    ELSE LET bz == readInFile(hpData, hpHead, Head(offList))
         IN IF n = stopAt THEN <<bz>>
            ELSE <<bz>> \o QueryLoop(Tail(offList), n + 1, stopAt)

\* The offList of QueryLogs.
QueryLogsOffList(addr, topics, startHeight, endHeight) ==
    LET addrHash48 == IF addr # NilAddr THEN Sum48(seed, addr)
                      ELSE InvalidAddrHash
        topicHash48List == [t \in 1..Len(topics) |-> Sum48(seed, topics[t])]
    IN QueryTxOffsets(indexer, addrHash48, topicHash48List, startHeight,
                      endHeight)

QueryLogs(addr, topics, startHeight, endHeight, stopAt) ==
    QueryLoop(QueryLogsOffList(addr, topics, startHeight, endHeight), 1,
              stopAt)

\* ----------------------------------------------------------- specification
\* Each step of postAddBlock, taken by any of the running goroutines.
PostFill == \E ti \in 1..Len(tasks) : PostFillAt(ti)
PostLock == \E ti \in 1..Len(tasks) : PostLockAt(ti)
PostAppendBlock == \E ti \in 1..Len(tasks) : PostAppendBlockAt(ti)
PostAppendTx == \E ti \in 1..Len(tasks) : PostAppendTxAt(ti)
PostLogs == \E ti \in 1..Len(tasks) : PostLogsAt(ti)
PostCommit == \E ti \in 1..Len(tasks) : PostCommitAt(ti)
PostFlush == \E ti \in 1..Len(tasks) : PostFlushAt(ti)
PostPruneStart == \E ti \in 1..Len(tasks) : PostPruneStartAt(ti)
PostPruneBlock == \E ti \in 1..Len(tasks) : PostPruneBlockAt(ti)
PostPruneCommit == \E ti \in 1..Len(tasks) : PostPruneCommitAt(ti)
PostUnlock == \E ti \in 1..Len(tasks) : PostUnlockAt(ti)
PostDone == \E ti \in 1..Len(tasks) : PostDoneAt(ti)

Next ==
    \/ \E h \in Heights, p \in PruneArgs : AddBlockSetSync(h, p)
    \/ AddBlockSpawn
    \/ \E p \in PruneArgs : AddBlockNilCall(p)
    \/ \E p \in PruneArgs : AddBlockNilReturn(p)
    \/ PostFill
    \/ PostLock
    \/ PostAppendBlock
    \/ PostAppendTx
    \/ PostLogs
    \/ PostCommit
    \/ PostFlush
    \/ PostPruneStart
    \/ PostPruneBlock
    \/ PostPruneCommit
    \/ PostUnlock
    \/ PostDone
    \/ Crash
    \/ NewMoDB
    \/ NewMoDBReturn
    \/ Close
    \/ QueryBegin
    \/ QueryEnd

Spec == Init /\ [][Next]_vars

\* The scheduler runs every goroutine that can take a step: the steps of
\* postAddBlock, the returns of the calls that wait on db.wg, the end of a
\* query.  A crash may happen or not.
Fairness ==
    /\ WF_vars(PostFill)
    /\ WF_vars(PostLock)
    /\ WF_vars(PostAppendBlock)
    /\ WF_vars(PostAppendTx)
    /\ WF_vars(PostLogs)
    /\ WF_vars(PostCommit)
    /\ WF_vars(PostFlush)
    /\ WF_vars(PostPruneStart)
    /\ WF_vars(PostPruneBlock)
    /\ WF_vars(PostPruneCommit)
    /\ WF_vars(PostUnlock)
    /\ WF_vars(PostDone)
    /\ WF_vars(AddBlockSpawn)
    /\ WF_vars(\E p \in PruneArgs : AddBlockNilReturn(p))
    /\ WF_vars(NewMoDBReturn)
    /\ WF_vars(QueryEnd)

FairSpec == Spec /\ Fairness

\* ------------------------------------------- a heap that grows beyond Unit
\* Payloads are appended with appendToFile and kept in the indexer under a
\* running id, the head of the heap file is pruned, and the heap's size
\* passes Unit, the range of the offsets the indexer keeps.

\* The lengths of the payloads appended: their frames take 256 and 512 bytes.
WrapLens == {252, 508}

WrapPayload(n) == [k \in 1..n |-> (n + k) % ByteBase]

\* What the indexer keeps of an offset: its low bits (40 in the source).
Offset40(offset) == offset % (Unit \div Align)

\* The byte offsets at which the payloads of the heap file begin.
RECURSIVE FrameStarts(_, _)
FrameStarts(data, off) ==
    IF off >= Len(data) THEN <<>>
    ELSE LET size == UnLE(SubSeq(data, off + 1, off + LenBytes))
         IN <<off>> \o FrameStarts(data, off + LenBytes + size
                                           + Padding32(LenBytes + size))

\* appendToFile(data) and indexer.AddTx with the offset it returns.
WrapAppend(n) ==
    LET data == WrapPayload(n)
        id56 == GetId56(0, Cardinality(DOMAIN indexer.txId))
    IN /\ Len(hpData) + Len(Frame(data)) <= MaxWrapSize
       /\ hpData' = hpData \o Frame(data)
       /\ indexer' = IdxAddTx(indexer, id56, Sum48(seed, n),
                              Offset40(AppendOffset40(hpData)))
       /\ UNCHANGED <<metadb, hpHead, hpFlushed, seed, wg, wlocked, rcount,
                      tasks, callerpc, callerArg, histVars>>

\* HPFile.PruneHead at the beginning of a payload.
WrapPrune ==
    /\ \E k \in 1..Len(FrameStarts(hpData, 0)) :
         /\ FrameStarts(hpData, 0)[k] > hpHead
         /\ hpHead' = PruneHead(hpHead, FrameStarts(hpData, 0)[k])
    /\ UNCHANGED <<metadb, hpData, hpFlushed, indexer, seed, wg, wlocked,
                   rcount, tasks, callerpc, callerArg, histVars>>

WrapNext ==
    \/ \E n \in WrapLens : WrapAppend(n)
    \/ WrapPrune

SpecWrap == Init /\ [][WrapNext]_vars

\* ------------------------------------------------------ properties: terms
\* The database is open and no call of the caller's thread is under way.
Ready == callerpc = "ready"

\* The block added at height h has been indexed and its task has ended.
IndexingDone(h) ==
    /\ h \in submitted
    /\ \A k \in 1..Len(metadb.NEW) : metadb.NEW[k].Height # h
    /\ \A ti \in 1..Len(tasks) : tasks[ti].blk.Height # h

\* The queries by height return the bodies of the block added at height h.
Served(h) ==
    /\ GetBlockByHeight(h) = Blk(h).BlockInfo
    /\ \A i \in 1..Len(Blk(h).TxList) :
         GetTxByHeightAndIndex(h, i - 1) = Blk(h).TxList[i].Content

\* GetTxByHash reaches the content of every transaction of the block at h.
ServedByHash(h) ==
    \A i \in 1..Len(Blk(h).TxList) :
      LET c == TxByHashCandidates(Blk(h).TxList[i].HashId)
      IN \E k \in 1..Len(c) : c[k] = Blk(h).TxList[i].Content

\* The indexer holds no (hash, h) pair in the map m of log entries.
NoLogAt(m, h) == \A k \in DOMAIN m : h \notin DOMAIN m[k]

\* The indexer holds nothing keyed on height h.
NotInIndexer(h) ==
    /\ h \notin DOMAIN indexer.blkHeight
    /\ \A id \in DOMAIN indexer.txId : id \div IdShift # h
    /\ NoLogAt(indexer.addr2Log, h)
    /\ NoLogAt(indexer.topic2Log, h)

\* The indexer holds every entry of the block added at height h.
AllInIndexer(h) ==
    LET b == Blk(h)
    IN /\ h \in DOMAIN indexer.blkHeight
       /\ \A i \in 1..Len(b.TxList) :
            /\ GetId56(h, i - 1) \in DOMAIN indexer.txId
            /\ \A l \in 1..Len(b.TxList[i].LogList) :
                 LET lg == b.TxList[i].LogList[l]
                     a == Sum48(seed, lg.Address)
                 IN /\ a \in DOMAIN indexer.addr2Log
                    /\ h \in DOMAIN indexer.addr2Log[a]
                    /\ \A t \in 1..Len(lg.Topics) :
                         LET th == Sum48(seed, lg.Topics[t])
                         IN /\ th \in DOMAIN indexer.topic2Log
                            /\ h \in DOMAIN indexer.topic2Log[th]

\* The payloads of the block index bi end at or before the heap offset size.
InsideHeap(bi, size) ==
    LET b == Blk(bi.Height)
    IN /\ bi.BeginOffset * Align + Len(Frame(b.BlockInfo)) <= size
       /\ \A i \in 1..Len(bi.TxPosList) :
            bi.TxPosList[i] * Align + Len(Frame(b.TxList[i].Content)) <= size

\* The program counters at which postAddBlock holds db.mtx for writing.
LockedPcs == {"appendBlk", "appendTx", "logs", "commit", "flush", "prune",
              "pruneLoop", "unlock"}

\* A query is inside its read-locked section.
Querying == rcount > 0

\* The heights whose blocks are indexed and not pruned.
Live == {h \in submitted \ prunedHs : IndexingDone(h)}

\* The live heights whose block hash has the short hash of the block at h,
\* in the order in which the caller added them.
Colliding(h) ==
    Ascending({g \in Live : Sum48(seed, Blk(g).BlockHash)
                              = Sum48(seed, Blk(h).BlockHash)})

\* The filters of the QueryLogs calls examined: a nil or a logged address,
\* up to two logged topics, a range of heights.
FilterAddrs == {NilAddr, 1, 2}
FilterTopics == {<<>>, <<1>>, <<3>>, <<1, 2>>}
FilterRanges == {<<0, MaxHeight>>, <<2, ByteBase>>}

\* The calls at which fn returns false: never (0), or at its call number n.
StopAts == 0..2

\* The (height, index) id under which the indexer holds the offset, -1 when
\* it holds it under none.
IdOfOffset(offset40) ==
    IF \E id \in DOMAIN indexer.txId : indexer.txId[id] = offset40
    THEN CHOOSE id \in DOMAIN indexer.txId : indexer.txId[id] = offset40
    ELSE -1

Min(a, b) == IF a <= b THEN a ELSE b

\* The largest member of a non-empty set of integers.
MaxOf(S) == CHOOSE x \in S : \A y \in S : y <= x

\* The indexer maps height h and every (h, i) to payloads that read as the
\* block added at h.
MapsToPayloads(h) ==
    /\ h \in DOMAIN indexer.blkHeight
    /\ readInFile(hpData, hpHead, indexer.blkHeight[h]) = Blk(h).BlockInfo
    /\ \A i \in 1..Len(Blk(h).TxList) :
         /\ GetId56(h, i - 1) \in DOMAIN indexer.txId
         /\ readInFile(hpData, hpHead, indexer.txId[GetId56(h, i - 1)])
              = Blk(h).TxList[i].Content

\* The bytes a payload takes in the heap file: length, data, padding.
FrameLen(data) == LenBytes + Len(data) + Padding32(LenBytes + Len(data))

\* The transactions the task t has appended so far.
AppendedTxs(t) ==
    IF t.pc = "appendTx" THEN t.i - 1 ELSE Len(t.blk.TxList)

RECURSIVE SumFrameLens(_, _)
SumFrameLens(txs, n) ==
    IF n = 0 THEN 0
    ELSE FrameLen(txs[n].Content) + SumFrameLens(txs, n - 1)

\* How often x occurs in the sequence q.
Count(q, x) == Cardinality({k \in 1..Len(q) : q[k] = x})

\* The bytes the payloads of the block added at height h take in the heap.
BlockFrameLens(h) ==
    FrameLen(Blk(h).BlockInfo)
      + SumFrameLens(Blk(h).TxList, Len(Blk(h).TxList))

RECURSIVE SumBlockFrameLens(_)
SumBlockFrameLens(hs) ==
    IF hs = <<>> THEN 0
    ELSE BlockFrameLens(Head(hs)) + SumBlockFrameLens(Tail(hs))

\* The database is open and idle: no call, no task, no pending block.
Idle == callerpc = "ready" /\ tasks = <<>> /\ metadb.NEW = <<>>

\* The indexer's candidate lists hold the offsets of the block index bi once
\* each: the block's under its short hash, each transaction's under its own.
IndexedOnce(bi) ==
    /\ Count(GetOffsetsByBlockHash(indexer, bi.BlockHash48), bi.BeginOffset)
         = 1
    /\ \A i \in 1..Len(bi.TxPosList) :
         Count(GetOffsetsByTxHash(indexer, bi.TxHash48List[i]),
               bi.TxPosList[i]) = 1

\* ----------------------------------------------------------- properties
\* C1: after a crash at any point after AddBlock(b, p) has returned, the
\* database NewMoDB returns serves b's block information and every one of
\* b's transactions by height, unless a prune beyond b's height was asked.
C1_DurableAcceptance ==
    (crashes > 0 /\ Ready /\ tasks = <<>>) =>
      \A h \in accepted : maxPrune <= h => Served(h)

\* C2: the store is either idle (NEW absent, every B<height> entry's
\* payloads inside [0, HPF_SIZE)) or pending (NEW present, HPF_SIZE the
\* heap's size before the pending block's payloads, no B<height> entry of
\* the pending block).
C2_DurableState ==
    LET size == UnLE(metadb.HPF_SIZE)
    IN IF metadb.NEW = <<>>
       THEN \A k \in DOMAIN metadb.B : InsideHeap(metadb.B[k], size)
       ELSE /\ BKey(U32(metadb.NEW[1].Height)) \notin DOMAIN metadb.B
            /\ callerpc = "spawn" => Len(hpData) = size
            /\ \A ti \in 1..Len(tasks) :
                 IF tasks[ti].pc \in {"start", "lockwait", "appendBlk"}
                 THEN Len(hpData) = size
                 ELSE tasks[ti].blkIdx.BeginOffset * Align = size

C2_Witness ==
    /\ metadb.NEW # <<>>
    /\ DOMAIN metadb.B # {}
    /\ \E ti \in 1..Len(tasks) :
         tasks[ti].pc = "commit" /\ Len(tasks[ti].blk.TxList) > 0

\* C3: the size stored under HPF_SIZE never exceeds the heap bytes that
\* Flush has made durable.
C3_SizeBackedByFlush == UnLE(metadb.HPF_SIZE) <= hpFlushed

\* C4: without a crash, a block indexed at height h is served by
\* GetBlockByHeight(h) as long as no prune beyond h was asked, and a prune
\* up to p erases no height >= p.
C4_RetentionUntilPruned ==
    crashes = 0 =>
      /\ \A h \in prunedHs : h < maxPrune
      /\ (callerpc \in {"ready", "spawn"} /\ ~wlocked) =>
           \A h \in submitted :
             (IndexingDone(h) /\ maxPrune <= h) =>
               GetBlockByHeight(h) = Blk(h).BlockInfo

\* C5: when the task of AddBlock(b, p) with p >= 0 has done its work, every
\* height below p is gone from the queries, the indexer and the store.
C5_PruneComplete ==
    \A ti \in 1..Len(tasks) :
      (tasks[ti].pc = "done" /\ tasks[ti].pruneTillHeight >= 0) =>
        \A h \in Heights :
          h < tasks[ti].pruneTillHeight =>
            /\ GetBlockByHeight(h) = Absent
            /\ NotInIndexer(h)
            /\ BKey(h) \notin DOMAIN metadb.B

\* C6: at most one postAddBlock goroutine exists; AddBlock writes NEW and
\* starts a task only when the previous task has ended; nothing runs once
\* Close has closed the files.
C6_SingleTask ==
    /\ Len(tasks) <= 1
    /\ wg = Len(tasks)
    /\ callerpc = "spawn" => tasks = <<>>
    /\ callerpc = "closed" => tasks = <<>>

C6_Witness ==
    /\ Len(tasks) = 1
    /\ tasks[1].pc = "commit"
    /\ callerpc = "ready"
    /\ Cardinality(accepted) = 2

\* C7: while a query holds the lock no task is between its first heap
\* append and the end of its commit and pruning, and every block is in the
\* indexer with all of its entries or with none.
C7_AtomicVisibility ==
    rcount > 0 =>
      /\ \A ti \in 1..Len(tasks) : tasks[ti].pc \notin LockedPcs
      /\ \A h \in Heights : AllInIndexer(h) \/ NotInIndexer(h)

C7_Witness ==
    /\ rcount > 0
    /\ \E ti \in 1..Len(tasks) : tasks[ti].pc = "start"
    /\ \E h \in Heights : AllInIndexer(h) /\ Len(Blk(h).TxList) > 1
    /\ prunedHs # {}

\* C8: NewMoDB truncates the heap to HPF_SIZE, reloads every B<height>
\* entry into the indexer, replays the block under NEW without pruning, and
\* returns only when NEW is gone and the replayed block has its entry.
C8_Recovery ==
    /\ (callerpc \in {"crashed", "closed"} /\ callerpc' \in {"ready", "opening"})
         => /\ Len(hpData') = UnLE(metadb'.HPF_SIZE)
            /\ \A k \in DOMAIN metadb'.B :
                 metadb'.B[k].Height \in DOMAIN indexer'.blkHeight
            /\ callerpc' = "opening" <=> metadb'.NEW # <<>>
            /\ callerpc' = "opening" =>
                 /\ Len(tasks') = 1
                 /\ tasks'[1].blk = metadb'.NEW[1]
                 /\ tasks'[1].pruneTillHeight = -1
    /\ (callerpc = "opening" /\ callerpc' = "ready")
         => /\ metadb'.NEW = <<>>
            /\ tasks' = <<>>
            /\ BKey(U32(callerArg[1].blk.Height)) \in DOMAIN metadb'.B

C8_RecoveryAlways == [][C8_Recovery]_vars

\* C9: a height below pruneTillHeight that pruneBlock has erased is never
\* in the indexer again and GetBlockByHeight never serves it again, also
\* after a crash inside pruneTillBlock and NewMoDB.
C9_PruneNotUndone ==
    Ready => \A h \in prunedHs :
               h < maxPrune =>
                 /\ h \notin DOMAIN indexer.blkHeight
                 /\ GetBlockByHeight(h) = Absent

\* C10: without a crash, also after Close and NewMoDB, every transaction
\* of an indexed, unpruned block is served by height and index, and
\* GetTxByHash reaches its content.
C10_TxLookup ==
    (crashes = 0 /\ callerpc \in {"ready", "spawn"} /\ ~wlocked) =>
      \A h \in submitted \ prunedHs :
        IndexingDone(h) =>
          /\ \A i \in 1..Len(Blk(h).TxList) :
               GetTxByHeightAndIndex(h, i - 1) = Blk(h).TxList[i].Content
          /\ ServedByHash(h)

\* C11: without a crash, GetBlockByHash with the hash of a live block b and
\* a collectResult that accepts b's block information only is fed the block
\* information of the live blocks of that short hash in the order they were
\* added, up to b's and no further; its last call is the one with b's.
C11_BlockByHash ==
    (crashes = 0 /\ Querying) =>
      \A h \in Live :
        LET calls == GetBlockByHash(Blk(h).BlockHash, {Blk(h).BlockInfo})
            cand == Colliding(h)
        IN /\ calls # <<>>
           /\ calls[Len(calls)] = Blk(h).BlockInfo
           /\ \A k \in 1..(Len(calls) - 1) : calls[k] # Blk(h).BlockInfo
           /\ Len(calls) <= Len(cand)
           /\ \A k \in 1..Len(calls) : calls[k] = Blk(cand[k]).BlockInfo

\* C12: without a crash, for every live block at height h, every log of
\* every transaction i of it, and every filter made of the log's address or
\* no address and of any of the log's topics, with an address or a topic
\* set and a range of heights around h, QueryLogs with an fn that always
\* asks for more feeds fn the content of transaction i.
C12_LogFilterComplete ==
    (crashes = 0 /\ Querying) =>
      \A h \in Live :
        \A i \in 1..Len(Blk(h).TxList) :
          \A l \in 1..Len(Blk(h).TxList[i].LogList) :
            LET lg == Blk(h).TxList[i].LogList[l]
            IN \A addr \in {NilAddr, lg.Address} :
                 \A Tp \in SUBSET Range(lg.Topics) :
                   (addr # NilAddr \/ Tp # {}) =>
                     \A s \in {0, h} : \A e \in {h, MaxHeight} :
                       LET calls == QueryLogs(addr, Ascending(Tp), s, e, 0)
                       IN \E k \in 1..Len(calls) :
                            calls[k] = Blk(h).TxList[i].Content

\* C13: the payloads QueryLogs passes to fn are those of transactions in
\* ascending order of (height, index), and once fn has returned false
\* QueryLogs calls it no more: it has fed the first stopAt payloads of what
\* it feeds an fn that always asks for more.
C13_LogOrderAndStop ==
    Querying =>
      \A addr \in FilterAddrs : \A topics \in FilterTopics :
        \A rg \in FilterRanges :
          LET offList == QueryLogsOffList(addr, topics, rg[1], rg[2])
              all == QueryLoop(offList, 1, 0)
          IN /\ Len(all) = Len(offList)
             /\ \A k \in 1..Len(offList) :
                  /\ IdOfOffset(offList[k]) >= 0
                  /\ all[k] = readInFile(hpData, hpHead, offList[k])
                  /\ k > 1 => IdOfOffset(offList[k - 1])
                                <= IdOfOffset(offList[k])
             /\ \A stopAt \in StopAts \ {0} :
                  QueryLoop(offList, 1, stopAt)
                    = SubSeq(all, 1, Min(stopAt, Len(all)))

\* Two queries have fed fn: one the transactions of two blocks, one two
\* transactions of one block, and an fn that stops at its first call has
\* been fed one payload of two.
C13_Witness ==
    /\ Querying
    /\ QueryLogs(1, <<>>, 0, MaxHeight, 0)
         = <<Blk(1).TxList[1].Content, Blk(ByteBase).TxList[1].Content>>
    /\ QueryLogs(NilAddr, <<1>>, 0, MaxHeight, 0)
         = <<Blk(1).TxList[1].Content, Blk(1).TxList[2].Content>>
    /\ QueryLogs(NilAddr, <<1>>, 0, MaxHeight, 1)
         = <<Blk(1).TxList[1].Content>>

\* C14: without a crash, when the AddBlock call that follows AddBlock(b, p)
\* is past its wait, or the Close that follows it has returned, b's task
\* has ended and NEW does not hold b; and if no prune beyond b's height
\* was asked, b's B<height> entry is in the store and, in AddBlock, the
\* indexer maps b's height and transactions to b's payloads.
C14_VisibleByNextCall ==
    (crashes = 0 /\ callerpc \in {"spawn", "closed"} /\ accepted # {}) =>
      LET h == MaxOf(accepted)
      IN /\ \A ti \in 1..Len(tasks) : tasks[ti].blk.Height # h
         /\ \A k \in 1..Len(metadb.NEW) : metadb.NEW[k].Height # h
         /\ maxPrune <= h =>
              /\ BKey(U32(h)) \in DOMAIN metadb.B
              /\ callerpc = "spawn" => MapsToPayloads(h)

\* C15: the steps of AddBlock(nil, p), its call and its return after the
\* wait, leave the store (NEW, HPF_SIZE, every B<height> entry), the heap
\* file and the indexer as they are, start no task and prune nothing,
\* whatever p is.
C15_NilStep ==
    (\/ callerpc = "ready" /\ callerpc' = "nilwait"
     \/ callerpc = "nilwait" /\ callerpc' = "ready")
      => UNCHANGED <<metadb, hpVars, indexer, seed, wg, wlocked, rcount,
                     tasks, histVars>>

C15_NilNoOp == [][C15_NilStep]_vars

\* AddBlock(nil, p) is about to return, with blocks in the store below one
\* of the p >= 0 it may have been called with.
C15_Witness ==
    /\ callerpc = "nilwait"
    /\ WgWait
    /\ \E p \in PruneArgs : p >= 0 /\ PruneKeys(metadb.B, p) # <<>>
    /\ DOMAIN indexer.blkHeight # {}

\* C16: without a crash, when pruneBlock has consumed the block index bi of
\* a height below pruneTillHeight, the heap's pruned prefix reaches the byte
\* offset bi.BeginOffset * 32, where the block information of that block
\* begins.
C16_PruneHeadOffset ==
    crashes = 0 =>
      \A ti \in 1..Len(tasks) :
        tasks[ti].pc = "pruneLoop" =>
          \A k \in 1..(tasks[ti].i - 1) :
            LET bi == metadb.B[tasks[ti].keys[k]]
            IN bi.Height < tasks[ti].pruneTillHeight =>
                 hpHead >= bi.BeginOffset * Align

\* C17: for every payload of the heap file that begins at a byte r not
\* pruned and not below size - Unit, GetRealOffset of the offset the
\* indexer keeps, r mod Unit, is r, and readInFile returns the payload's
\* bytes, also when the heap has grown beyond Unit.
C17_RealOffset ==
    LET starts == FrameStarts(hpData, 0)
        size == Len(hpData)
    IN \A k \in 1..Len(starts) :
         LET r == starts[k]
             offset40 == GetOffsetByTxID(indexer, GetId56(0, k - 1))
             len == UnLE(SubSeq(hpData, r + 1, r + LenBytes))
         IN (r >= hpHead /\ size - Unit <= r) =>
              /\ GetRealOffset(offset40 * Align, size) = r
              /\ readInFile(hpData, hpHead, offset40)
                   = SubSeq(hpData, r + LenBytes + 1, r + LenBytes + len)

\* C18: in an open database, after any appends, crashes, truncations and
\* replays, the heap's size and HPF_SIZE are multiples of 32; the payloads a
\* task has appended begin at multiples of 32, take 4 + len + padding bytes
\* each with 0 <= padding < 32, and readInFile returns each of them, the
\* empty one too, from the offset appendToFile returned.
C18_Framing ==
    /\ \A n \in 0..(2 * Align) :
         /\ 0 <= Padding32(n) /\ Padding32(n) < Align
         /\ (n + Padding32(n)) % Align = 0
    /\ callerpc # "crashed" =>
         /\ Len(hpData) % Align = 0
         /\ UnLE(metadb.HPF_SIZE) % Align = 0
         /\ \A ti \in 1..Len(tasks) :
              LET t == tasks[ti]
                  n == AppendedTxs(t)
              IN t.pc \notin {"start", "lockwait", "appendBlk"} =>
                   /\ Len(hpData) = t.blkIdx.BeginOffset * Align
                                      + FrameLen(t.blk.BlockInfo)
                                      + SumFrameLens(t.blk.TxList, n)
                   /\ readInFile(hpData, hpHead, t.blkIdx.BeginOffset)
                        = t.blk.BlockInfo
                   /\ \A k \in 1..n :
                        readInFile(hpData, hpHead, t.blkIdx.TxPosList[k])
                          = t.blk.TxList[k].Content

\* After a crash, NewMoDB has truncated the heap and its replay has appended
\* a block with a transaction of empty content behind the payloads of
\* another block.
C18_Witness ==
    /\ callerpc = "opening"
    /\ \E ti \in 1..Len(tasks) :
         /\ tasks[ti].pc = "commit"
         /\ tasks[ti].blkIdx.BeginOffset > 0
         /\ \E k \in 1..Len(tasks[ti].blk.TxList) :
              tasks[ti].blk.TxList[k].Content = <<>>

\* C19: when the database is open and idle, after any crashes and
\* restarts, every block AddBlock has accepted has had its B<height> entry
\* committed exactly once, the heap below HPF_SIZE is made of the payloads
\* of the committed blocks, each once, with no bytes of an aborted attempt,
\* and for every block with an entry in the store the indexer's candidate
\* lists hold the block's and its transactions' offsets exactly once.
C19_ExactlyOnce ==
    Idle =>
      /\ \A h \in accepted : Count(committed, h) = 1
      /\ Len(hpData) = UnLE(metadb.HPF_SIZE)
      /\ Len(hpData) = SumBlockFrameLens(committed)
      /\ \A k \in DOMAIN metadb.B : IndexedOnce(metadb.B[k])

\* C20: the write lock is held only by a running task and the wait group
\* counts the running tasks; under fair scheduling a held write lock is
\* released, the wait group's counter returns to zero, and a call of
\* AddBlock or NewMoDB that is under way returns (or the process crashes).
C20_Progress ==
    /\ [](wlocked => \E ti \in 1..Len(tasks) : tasks[ti].pc \in LockedPcs)
    /\ [](wg = Len(tasks))
    /\ (wlocked ~> ~wlocked)
    /\ (wg > 0 ~> wg = 0)
    /\ (callerpc \in {"spawn", "nilwait", "opening"}
          ~> callerpc \in {"ready", "crashed"})

\* A task prunes under the write lock while AddBlock(nil, p) waits for it.
C20_Witness ==
    /\ wlocked
    /\ wg = 1
    /\ callerpc = "nilwait"
    /\ \E ti \in 1..Len(tasks) :
         tasks[ti].pc = "pruneLoop" /\ tasks[ti].keys # <<>>

====
